---------------------------- MODULE Spec2Model ----------------------------
(***************************************************************************)
(* A model of httpolice's chunked transfer-coding decoder (message.py) and *)
(* of its report renderers (report.py).                                    *)
(*                                                                         *)
(* Byte strings and unicode strings are kept run-length encoded: a string  *)
(* is a sequence of runs <<c, n>> (character code c repeated n >= 1        *)
(* times), adjacent runs holding different codes.  The encoding is exact   *)
(* (Expand gives the plain sequence) and lets strings longer than the      *)
(* 5000-character display limit be handled.                                *)
(***************************************************************************)
EXTENDS Integers, Sequences, FiniteSets, TLC

VARIABLES
    msg,       \* the Message under decoding / display
    state,     \* the parser cursor: the tokens not consumed yet
    call,      \* history: the last decoder call, its arguments, msg before it
    ret,       \* return value of the last decoder call
    pc,        \* position of the caller
    report,    \* the Report instance built by Report.render
    items,     \* the items handed to Report.render
    piece,     \* the markup piece (and context) handed to piece_to_text/html
    result     \* the value returned by the pure function under check

vars == <<msg, state, call, ret, pc, report, items, piece, result>>

---------------------------------------------------------------------------
(* Python values *)

None == [k |-> "None"]
Unparseable == [k |-> "Unparseable"]

\* a str / unicode value holding the runs r, and a list holding the elements s
Str(r) == [k |-> "str", v |-> r]
List(s) == [k |-> "list", v |-> s]

\* structure.okay
okay(x) == x # None /\ x # Unparseable

\* Python truth value of None, a string, a list or the Unparseable object
truthy(x) == x # None /\ x # Str(<<>>) /\ x # List(<<>>)

---------------------------------------------------------------------------
(* Run-length encoded strings *)

RECURSIVE Norm(_)
Norm(s) ==
    IF Len(s) = 0 THEN <<>>
    ELSE IF s[1][2] = 0 THEN Norm(Tail(s))
    ELSE IF Len(s) = 1 THEN s
    ELSE LET r == Norm(Tail(s)) IN
         IF Len(r) > 0 /\ r[1][1] = s[1][1]
         THEN <<(<<s[1][1], s[1][2] + r[1][2]>>)>> \o Tail(r)
         ELSE <<s[1]>> \o r

\* s + t
Cat(s, t) == Str(Norm(s.v \o t.v))

RECURSIVE RunsLen(_)
RunsLen(r) == IF Len(r) = 0 THEN 0 ELSE r[1][2] + RunsLen(Tail(r))

\* len(s)
StrLen(s) == RunsLen(s.v)

RECURSIVE TakeRuns(_, _)
TakeRuns(r, n) ==
    IF Len(r) = 0 \/ n <= 0 THEN <<>>
    ELSE IF r[1][2] >= n THEN <<(<<r[1][1], n>>)>>
    ELSE <<r[1]>> \o TakeRuns(Tail(r), n - r[1][2])

\* s[:n]
Take(s, n) == Str(TakeRuns(s.v, n))

RECURSIVE ExpandRuns(_)
ExpandRuns(r) ==
    IF Len(r) = 0 THEN <<>>
    ELSE [i \in 1..r[1][2] |-> r[1][1]] \o ExpandRuns(Tail(r))

\* the plain sequence of character codes (used on short strings only)
Expand(s) == ExpandRuns(s.v)

\* a join that concatenates the chunks in reverse order (faulty variant)
RECURSIVE JoinWrong(_)
JoinWrong(data) ==
    IF Len(data) = 0 THEN Str(<<>>) ELSE Cat(JoinWrong(Tail(data)), data[1])

RECURSIVE Join(_)
\* ''.join(data)
Join(data) ==
    IF Len(data) = 0 THEN Str(<<>>) ELSE Cat(data[1], Join(Tail(data)))

---------------------------------------------------------------------------
(* The cursor and the chunked grammar (httpolice.syntax, httpolice.parse).  *)
(* The cursor holds tokens: "chunk" (a chunk-size line, that many bytes of  *)
(* data and CRLF), "last" (the zero-length chunk), "field" (a trailer field *)
(* line), "crlf" (a bare line terminator), "bad" (bytes no rule matches)    *)
(* and "badfield" (a trailer line that starts as a field and then breaks).  *)
(* Each parser returns [ok, value, state]; ok = FALSE is a ParseError.      *)

ChunkTok(d) == [t |-> "chunk", data |-> d]
LastTok == [t |-> "last"]
FieldTok(e) == [t |-> "field", entry |-> e]
CrlfTok == [t |-> "crlf"]
BadTok == [t |-> "bad"]
BadFieldTok == [t |-> "badfield"]

ParseError(st) == [ok |-> FALSE, value |-> None, state |-> st]

\* syntax.chunk.parse(state)
chunk_parse(st) ==
    IF Len(st) > 0 /\ st[1].t = "chunk"
    THEN [ok |-> TRUE, value |-> st[1].data, state |-> Tail(st)]
    ELSE IF Len(st) > 0 /\ st[1].t = "last"
    THEN [ok |-> TRUE, value |-> Str(<<>>), state |-> Tail(st)]
    ELSE ParseError(st)

RECURSIVE trailer_part_parse(_)
\* syntax.trailer_part.parse(state)
trailer_part_parse(st) ==
    IF Len(st) > 0 /\ st[1].t = "field"
    THEN LET r == trailer_part_parse(Tail(st)) IN
         IF r.ok
         THEN [ok |-> TRUE, value |-> List(<<st[1].entry>> \o r.value.v),
               state |-> r.state]
         ELSE r
    ELSE IF Len(st) > 0 /\ st[1].t = "badfield"
    THEN ParseError(st)
    ELSE [ok |-> TRUE, value |-> List(<<>>), state |-> st]

\* syntax.crlf.parse(state)
crlf_parse(st) ==
    IF Len(st) > 0 /\ st[1].t = "crlf"
    THEN [ok |-> TRUE, value |-> None, state |-> Tail(st)]
    ELSE ParseError(st)

---------------------------------------------------------------------------
(* message.py *)

\* Message.__init__ with body, trailer_entries and raw left at their defaults.
\* complaints is the finding list of common.ReportNode; decoded_body,
\* json_data, charset and the two header flags are what the header view and
\* the upstream layers expose on the message.
Message(version, header_entries) ==
    [version |-> version, header_entries |-> header_entries,
     body |-> None, trailer_entries |-> None, raw |-> None,
     complaints |-> <<>>,
     transfer_encoding |-> FALSE, content_encoding |-> FALSE,
     decoded_body |-> None, json_data |-> None, charset |-> ""]

\* common.ReportNode.complain
complain(m, ident, ctx) ==
    [m EXCEPT !.complaints = Append(@, <<ident, ctx>>)]

RECURSIVE chunk_loop(_, _)
\* lines 26-29: chunk = parse(); while chunk: data.append(chunk); chunk = parse()
chunk_loop(st, data) ==
    LET r == chunk_parse(st) IN
    IF ~r.ok THEN [ok |-> FALSE, data |-> data, state |-> r.state]
    ELSE IF ~truthy(r.value) THEN [ok |-> TRUE, data |-> data, state |-> r.state]
    ELSE chunk_loop(r.state, Append(data, r.value))

\* the try block, lines 25-31
parse_chunked_try(st) ==
    LET c == chunk_loop(st, <<>>) IN
    IF ~c.ok THEN [ok |-> FALSE, data |-> c.data, trailers |-> None, state |-> c.state]
    ELSE LET t == trailer_part_parse(c.state) IN
         IF ~t.ok THEN [ok |-> FALSE, data |-> c.data, trailers |-> None, state |-> t.state]
         ELSE LET e == crlf_parse(t.state) IN
              [ok |-> e.ok, data |-> c.data, trailers |-> t.value, state |-> e.state]

\* faulty variant: the except branch keeps the data and trailers parsed so far
parse_chunked_partial(m, st) ==
    LET r == parse_chunked_try(st) IN
    IF ~r.ok
    THEN [msg |-> [complain(m, 1005, "error") EXCEPT
                     !.body = Join(r.data), !.trailer_entries = r.trailers],
          state |-> r.state, ret |-> "False"]
    ELSE [msg |-> [m EXCEPT !.body = Join(r.data), !.trailer_entries = r.trailers],
          state |-> r.state, ret |-> "True"]

\* faulty variant: the else branch joins the chunks in the wrong order
parse_chunked_misjoin(m, st) ==
    LET r == parse_chunked_try(st) IN
    IF ~r.ok
    THEN [msg |-> [complain(m, 1005, "error") EXCEPT !.body = Unparseable],
          state |-> r.state, ret |-> "False"]
    ELSE [msg |-> [m EXCEPT !.body = JoinWrong(r.data), !.trailer_entries = r.trailers],
          state |-> r.state, ret |-> "True"]

\* parse_chunked(msg, state): the message and cursor after the call, and the
\* value returned
parse_chunked(m, st) ==
    LET r == parse_chunked_try(st) IN
    IF ~r.ok
    THEN [msg |-> [complain(m, 1005, "error") EXCEPT !.body = Unparseable],
          state |-> r.state, ret |-> "False"]
    ELSE [msg |-> [m EXCEPT !.body = Join(r.data), !.trailer_entries = r.trailers],
          state |-> r.state, ret |-> "True"]

\* known.tc: the transfer codings the callers can name
tc == {"chunked", "gzip", "deflate", "identity"}

\* decode_transfer_coding(msg, coding)
decode_transfer_coding(m, coding) ==
    IF coding = "chunked"
    THEN [complain(m, 1002, "") EXCEPT !.body = Unparseable]
    ELSE [complain(m, 1003, coding) EXCEPT !.body = Unparseable]

---------------------------------------------------------------------------
(* report.py: displayable_body *)

\* U+FFFD, the replacement character
REPLACEMENT == 65533

\* util.text: the characters has_nonprintable reports and printable replaces
\* (here the control character NUL, code 0)
is_printable(c) == c # 0

\* has_nonprintable(s)
has_nonprintable(s) == \E i \in 1..Len(s.v) : ~is_printable(s.v[i][1])

\* printable(s): each non-printable character becomes one U+FFFD
printable(s) ==
    Str(Norm([i \in 1..Len(s.v) |->
                <<IF is_printable(s.v[i][1]) THEN s.v[i][1] ELSE REPLACEMENT,
                  s.v[i][2]>>]))

\* b.decode('utf-8', 'replace') on bytes that are ASCII or the byte 0xFF, which
\* no UTF-8 sequence holds: each 0xFF becomes one U+FFFD
utf8_decode(b) ==
    Str(Norm([i \in 1..Len(b.v) |->
                <<IF b.v[i][1] < 128 THEN b.v[i][1] ELSE REPLACEMENT,
                  b.v[i][2]>>]))

\* b.decode('iso8859-1', 'replace'): every byte is the character of its code
latin1_decode(b) == b

\* codecs.lookup(charset).name, falling back to utf-8 on LookupError
codec_name(charset) ==
    IF charset \in {"iso-8859-1", "latin-1"} THEN "iso8859-1" ELSE "utf-8"

\* b.decode(codec, 'replace')
decode(b, codec) == IF codec = "iso8859-1" THEN latin1_decode(b) ELSE utf8_decode(b)

RECURSIVE json_escape(_)
\* the body of a JSON string literal: NUL is written as the six characters
\* backslash, u, 0, 0, 0, 0
json_escape(r) ==
    IF Len(r) = 0 THEN <<>>
    ELSE IF r[1][1] # 0 THEN <<r[1]>> \o json_escape(Tail(r))
    ELSE <<(<<92, 1>>), (<<117, 1>>), (<<48, 4>>)>>
            \o json_escape(Norm(<<(<<0, r[1][2] - 1>>)>> \o Tail(r)))

\* json.dumps(data, indent=2, ensure_ascii=False) of a JSON string
json_dumps(data) ==
    Str(Norm(<<(<<34, 1>>)>> \o json_escape(Norm(data.v)) \o <<(<<34, 1>>)>>))

limit == 5000

TransferNote == "removing Transfer-Encoding"
ContentNote == "removing Content-Encoding"
PrettyNote == "pretty-printing"
DecodingNote(charset) == "decoding from " \o charset
LimitNote == "taking the first " \o ToString(limit) \o " characters"
PrintableNote == "replacing non-printable characters with the U+FFFD sign"

\* lines 70-72
transfer_stage(m) ==
    [r |-> utf8_decode(m.body),
     transforms |-> IF m.transfer_encoding THEN <<TransferNote>> ELSE <<>>]

\* faulty variant: the note does not depend on the Content-Encoding header
content_stage_always(m, w) ==
    IF okay(m.decoded_body)
    THEN [r |-> utf8_decode(m.decoded_body),
          transforms |-> Append(w.transforms, ContentNote)]
    ELSE w

\* lines 74-77
content_stage(m, w) ==
    IF okay(m.decoded_body)
    THEN [r |-> utf8_decode(m.decoded_body),
          transforms |-> IF m.content_encoding
                         THEN Append(w.transforms, ContentNote)
                         ELSE w.transforms]
    ELSE w

\* message.body_charset(msg) or 'UTF-8' (m.charset = "": no charset given)
charset_of(m) == IF m.charset = "" THEN "UTF-8" ELSE m.charset

\* lines 79-90
pretty_stage(m, w) ==
    IF okay(m.json_data)
    THEN [r |-> json_dumps(m.json_data),
          transforms |-> Append(w.transforms, PrettyNote)]
    ELSE IF okay(m.decoded_body)
    THEN LET codec == codec_name(charset_of(m)) IN
         [r |-> decode(m.decoded_body, codec),
          transforms |-> IF codec # "utf-8"
                         THEN Append(w.transforms, DecodingNote(charset_of(m)))
                         ELSE w.transforms]
    ELSE w

\* the working text and the notes before truncation, lines 70-90
working(m) == pretty_stage(m, content_stage(m, transfer_stage(m)))

\* faulty variant: the cut keeps one character fewer than the limit
limit_stage_short(w) ==
    IF StrLen(w.r) > limit
    THEN [r |-> Take(w.r, limit - 1), transforms |-> Append(w.transforms, LimitNote)]
    ELSE w

\* lines 92-95
limit_stage(w) ==
    IF StrLen(w.r) > limit
    THEN [r |-> Take(w.r, limit), transforms |-> Append(w.transforms, LimitNote)]
    ELSE w

\* faulty variant: the note is added but the characters are not replaced
printable_stage_noted(w) ==
    IF has_nonprintable(w.r)
    THEN [r |-> w.r, transforms |-> Append(w.transforms, PrintableNote)]
    ELSE w

\* lines 97-100
printable_stage(w) ==
    IF has_nonprintable(w.r)
    THEN [r |-> printable(w.r), transforms |-> Append(w.transforms, PrintableNote)]
    ELSE w

\* displayable_body(msg): (r, transforms)
displayable_body(m) ==
    IF ~okay(m.body)
    THEN [r |-> m.body, transforms |-> <<>>]
    ELSE printable_stage(limit_stage(working(m)))

---------------------------------------------------------------------------
(* report.py: the traffic tree and what a renderer produces.                *)
(* A node carries id, standing for id(obj).  What a renderer emits is a     *)
(* sequence of events, each a tuple of strings: the kind of output, the id  *)
(* of the node it is emitted for, then its content.  A rendering function   *)
(* returns [ok, ev, err]: the events emitted, and, with ok = FALSE, the     *)
(* exception that ended it (the events emitted before it stay emitted).     *)

RequestView(id, m) ==
    [kind |-> "RequestView", id |-> id, method |-> "GET", target |-> "/", msg |-> m]
ResponseView(id, m) ==
    [kind |-> "ResponseView", id |-> id, status |-> 200, reason |-> "OK", msg |-> m]
Exchange(id, req, resps, complaints) ==
    [kind |-> "Exchange", id |-> id, request |-> req, responses |-> resps,
     complaints |-> complaints]
Connection(id, exchs, complaints, inbound, outbound) ==
    [kind |-> "Connection", id |-> id, exchanges |-> exchs, complaints |-> complaints,
     unparsed_inbound |-> inbound, unparsed_outbound |-> outbound]

\* item.complaints
complaints_of(node) ==
    IF node.kind \in {"RequestView", "ResponseView"} THEN node.msg.complaints
    ELSE IF node.kind \in {"Exchange", "Connection"} THEN node.complaints
    ELSE <<>>

Ok(ev) == [ok |-> TRUE, ev |-> ev, err |-> ""]
Raise(e) == [ok |-> FALSE, ev |-> <<>>, err |-> e]
\* a; b
Then(a, b) == IF a.ok THEN [ok |-> b.ok, ev |-> a.ev \o b.ev, err |-> b.err] ELSE a

NL == <<"\n">>

\* the events of a list of header or trailer entries
entries_events(tag, id, es) ==
    [i \in 1..Len(es) |-> <<tag, id, es[i][1], es[i][2]>>]

(* TextReport.  Report._render_item is reached through                      *)
(* TextReport._render_item only, which has written the divider: every       *)
(* _write_more below it finds self.written set and writes the blank line.   *)

\* TextReport._write_more
text_write_more(written, ev) == IF written THEN <<NL, ev>> ELSE <<ev>>

\* TextReport._render_notices
text_render_notices(id, complaints) ==
    Ok([i \in 1..(2 * Len(complaints)) |->
          IF i % 2 = 1 THEN NL
          ELSE <<"notice", id, ToString(complaints[i \div 2][1]),
                 complaints[i \div 2][2]>>])

\* TextReport._render_message; iterating None raises TypeError
text_render_message(id, m) ==
    Then(Ok(entries_events("header", id, m.header_entries)),
    Then(Ok(IF m.body = Unparseable THEN << <<"body is unparseable", id>> >>
            ELSE IF truthy(m.body)
            THEN << <<"bytes of payload body not shown", id, ToString(StrLen(m.body))>> >>
            ELSE <<>>),
    Then(IF m.trailer_entries = None THEN Raise("TypeError: not iterable")
         ELSE Ok(entries_events("trailer", id, m.trailer_entries.v)),
         text_render_notices(id, m.complaints))))

\* TextReport._render_request (with _render_request_line)
text_render_request(req) ==
    Then(Ok(text_write_more(TRUE,
              <<"request-line", req.id, req.method, req.target, req.msg.version>>)),
         text_render_message(req.id, req.msg))

\* TextReport._render_response (with _render_status_line)
text_render_response(resp) ==
    Then(Ok(text_write_more(TRUE,
              <<"status-line", resp.id, resp.msg.version, ToString(resp.status),
                resp.reason>>)),
         text_render_message(resp.id, resp.msg))

RECURSIVE text_render_responses(_)
\* for resp in exch.responses: self._render_response(resp)
text_render_responses(resps) ==
    IF Len(resps) = 0 THEN Ok(<<>>)
    ELSE Then(text_render_response(resps[1]), text_render_responses(Tail(resps)))

\* TextReport._render_exchange
text_render_exchange(exch) ==
    Then(text_render_request(exch.request),
    Then(text_render_responses(exch.responses),
         text_render_notices(exch.id, exch.complaints)))

RECURSIVE text_render_exchanges(_)
\* for exch in conn.exchanges: self._render_exchange(exch)
text_render_exchanges(exchs) ==
    IF Len(exchs) = 0 THEN Ok(<<>>)
    ELSE Then(text_render_exchange(exchs[1]), text_render_exchanges(Tail(exchs)))

\* the unparsed-bytes note of one direction
unparsed_event(tag, id, bytes) ==
    IF truthy(bytes) THEN << <<tag, id, ToString(StrLen(bytes))>> >> ELSE <<>>

\* TextReport._render_connection
text_render_connection(conn) ==
    Then(text_render_exchanges(conn.exchanges),
    Then(text_render_notices(conn.id, conn.complaints),
         Ok((IF truthy(conn.unparsed_inbound) THEN <<NL>> ELSE <<>>)
              \o unparsed_event("unparsed inbound", conn.id, conn.unparsed_inbound)
              \o (IF truthy(conn.unparsed_outbound) THEN <<NL>> ELSE <<>>)
              \o unparsed_event("unparsed outbound", conn.id, conn.unparsed_outbound))))

\* Report._render_item as TextReport inherits it
text_dispatch(item) ==
    IF item.kind = "Connection" THEN text_render_connection(item)
    ELSE IF item.kind = "Exchange" THEN text_render_exchange(item)
    ELSE IF item.kind = "RequestView" THEN text_render_request(item)
    ELSE IF item.kind = "ResponseView" THEN text_render_response(item)
    ELSE Raise("TypeError: don't know how to render")

\* TextReport._render_item
text_render_item(written, item) ==
    Then(Ok(text_write_more(written, <<"divider">>)), text_dispatch(item))

(* HTMLReport.  An element is an opening event, the events of its children  *)
(* and a closing event.                                                     *)

Elem(open, r) == Then(Ok(<<open>>), Then(r, Ok(<< <<"/">> >>)))

\* HTMLReport._render_notices
html_render_notices(id, complaints) ==
    IF Len(complaints) > 0
    THEN Elem(<<"notices", id>>,
              Ok([i \in 1..Len(complaints) |->
                    <<"notice", id, ToString(complaints[i][1]), complaints[i][2]>>]))
    ELSE Ok(<<>>)

\* HTMLReport._render_message (with _render_header_entries)
html_render_message(id, m) ==
    LET shown == displayable_body(m) IN
    Then(Ok(entries_events("header", id, m.header_entries)),
    Then(IF shown.r = Unparseable
         THEN Elem(<<"review-block", id>>, Ok(<< <<"Payload body is unavailable.", id>> >>))
         ELSE IF truthy(shown.r)
         THEN Elem(<<"review-block", id>>,
                   Ok((IF Len(shown.transforms) > 0
                       THEN << <<"Payload body after", id>> \o shown.transforms >>
                       ELSE <<>>)
                      \o << <<"payload-body", id, ToString(StrLen(shown.r))>> >>))
         ELSE Ok(<<>>),
         IF truthy(m.trailer_entries)
         THEN Elem(<<"review-block", id>>,
                   Ok(entries_events("trailer", id, m.trailer_entries.v)))
         ELSE Ok(<<>>)))

\* HTMLReport._render_request
html_render_request(req) ==
    Elem(<<"review", req.id>>,
         Then(Ok(<< <<"request-line", req.id, req.method, req.target, req.msg.version>> >>),
              html_render_message(req.id, req.msg)))

\* HTMLReport._render_response
html_render_response(resp) ==
    Elem(<<"review", resp.id>>,
         Then(Ok(<< <<"status-line", resp.id, resp.msg.version, ToString(resp.status),
                      resp.reason>> >>),
              html_render_message(resp.id, resp.msg)))

\* HTMLReport._render_next_item on a request or a response
html_next_message(node) ==
    Elem(<<"div", node.id>>,
         Then(IF node.kind = "RequestView" THEN html_render_request(node)
              ELSE html_render_response(node),
         Then(html_render_notices(node.id, node.msg.complaints),
              Ok(<< <<"br">> >>))))

RECURSIVE html_next_messages(_)
\* for resp in exch.responses: self._render_next_item(resp)
html_next_messages(nodes) ==
    IF Len(nodes) = 0 THEN Ok(<<>>)
    ELSE Then(html_next_message(nodes[1]), html_next_messages(Tail(nodes)))

\* HTMLReport._render_exchange
html_render_exchange(exch) ==
    Then(html_next_message(exch.request), html_next_messages(exch.responses))

\* HTMLReport._render_next_item on an exchange
html_next_exchange(exch) ==
    Elem(<<"div", exch.id>>,
         Then(html_render_exchange(exch),
         Then(html_render_notices(exch.id, exch.complaints),
              Ok(<< <<"br">> >>))))

RECURSIVE html_next_exchanges(_)
\* for exch in conn.exchanges: self._render_next_item(exch)
html_next_exchanges(exchs) ==
    IF Len(exchs) = 0 THEN Ok(<<>>)
    ELSE Then(html_next_exchange(exchs[1]), html_next_exchanges(Tail(exchs)))

\* HTMLReport._render_connection
html_render_connection(conn) ==
    Then(html_next_exchanges(conn.exchanges),
         Elem(<<"review", conn.id>>,
              Ok(unparsed_event("unparsed inbound", conn.id, conn.unparsed_inbound)
                 \o unparsed_event("unparsed outbound", conn.id, conn.unparsed_outbound))))

\* faulty variant: the findings of an item are written before its content
html_next_item_notices_first(item) ==
    IF item.kind = "Connection"
    THEN Elem(<<"div", item.id>>,
              Then(html_next_exchanges(item.exchanges),
              Then(html_render_notices(item.id, item.complaints),
              Then(Elem(<<"review", item.id>>,
                     Ok(unparsed_event("unparsed inbound", item.id, item.unparsed_inbound)
                        \o unparsed_event("unparsed outbound", item.id,
                                          item.unparsed_outbound))),
                   Ok(<< <<"br">> >>)))))
    ELSE IF item.kind = "Exchange" THEN html_next_exchange(item)
    ELSE IF item.kind \in {"RequestView", "ResponseView"} THEN html_next_message(item)
    ELSE Elem(<<"div", item.id>>, Raise("TypeError: don't know how to render"))

\* HTMLReport._render_next_item on a top-level item, with the dispatch of
\* Report._render_item
html_next_item(item) ==
    IF item.kind = "Connection"
    THEN Elem(<<"div", item.id>>,
              Then(html_render_connection(item),
              Then(html_render_notices(item.id, item.complaints),
                   Ok(<< <<"br">> >>))))
    ELSE IF item.kind = "Exchange" THEN html_next_exchange(item)
    ELSE IF item.kind \in {"RequestView", "ResponseView"} THEN html_next_message(item)
    ELSE Elem(<<"div", item.id>>, Raise("TypeError: don't know how to render"))

\* cls(outfile): Report.__init__, TextReport.__init__, HTMLReport.__init__.
\* rendered counts the _render_item calls that returned, closed the _close
\* calls; outfile is what the sink received, document the HTML document.
NewReport(cls) ==
    [cls |-> cls, written |-> FALSE, outfile |-> <<>>, document |-> <<>>,
     rendered |-> 0, closed |-> 0, err |-> ""]

\* report._render_item(item): the report after it
render_item(rep, item) ==
    IF rep.cls = "TextReport"
    THEN LET r == text_render_item(rep.written, item) IN
         [rep EXCEPT !.outfile = @ \o r.ev,
                     !.written = rep.written \/ Len(r.ev) > 0,
                     !.rendered = IF r.ok THEN @ + 1 ELSE @,
                     !.err = r.err]
    ELSE LET r == html_next_item(item) IN
         [rep EXCEPT !.document = @ \o r.ev,
                     !.rendered = IF r.ok THEN @ + 1 ELSE @,
                     !.err = r.err]

\* report._close(): Report._close does nothing, HTMLReport._close writes the
\* document to the sink
close(rep) ==
    [rep EXCEPT !.closed = @ + 1,
                !.outfile = IF rep.cls = "HTMLReport" THEN rep.document ELSE @]

RECURSIVE render_loop(_, _)
\* for item in items: report._render_item(item), then report._close();
\* an exception leaves the loop and the function
render_loop(rep, its) ==
    IF Len(its) = 0 THEN close(rep)
    ELSE LET r == render_item(rep, its[1]) IN
         IF r.err # "" THEN r ELSE render_loop(r, Tail(its))

\* Report.render(items, outfile)
render(cls, its) == render_loop(NewReport(cls), its)

---------------------------------------------------------------------------
(* report.py: the markup pieces of a notice.                                *)
(* A piece is a record with its Python type in kind.  piece_to_text gives   *)
(* the text as a sequence of fragments, piece_to_html the elements as a     *)
(* sequence of events.                                                      *)

U(str) == [kind |-> "unicode", s |-> str]
NonePiece == [kind |-> "NoneType"]
PList(xs) == [kind |-> "list", items |-> xs]
Paragraph(c) == [kind |-> "Paragraph", content |-> c]
Ref(c, to) == [kind |-> "Ref", content |-> c, to |-> to]
Cite(c, info) == [kind |-> "Cite", content |-> c, info |-> info]
Citation(title, url) == [kind |-> "Citation", title |-> title, url |-> url]
Var(c) == [kind |-> "Var", content |-> c]
Parametrized(item, param) == [kind |-> "Parametrized", item |-> item, param |-> param]
FieldName(str) == [kind |-> "FieldName", s |-> str]
HeaderEntry(id, name, value) ==
    [kind |-> "HeaderEntry", id |-> id, name |-> FieldName(name), value |-> value]
HeaderView(id, name, entries) ==
    [kind |-> "HeaderView", id |-> id, name |-> FieldName(name), entries |-> entries]

\* Python truth value of a piece
piece_truthy(p) ==
    /\ p.kind # "NoneType"
    /\ p.kind = "unicode" => p.s # ""
    /\ p.kind = "list" => Len(p.items) > 0

\* unicode(obj)
unicode_of(p) ==
    IF p.kind = "NoneType" THEN "None"
    ELSE IF p.kind \in {"unicode", "FieldName"} THEN p.s
    ELSE IF p.kind = "Citation" THEN p.title
    ELSE p.kind

\* unicode(id(obj))
id_of(p) == IF p.kind \in {"HeaderEntry", "HeaderView"} THEN p.id ELSE unicode_of(p)

\* notice.Ref.resolve_reference(ctx): the context value the reference names
resolve_reference(p, ctx) == ctx[p.to]

\* known.is_known(obj)
is_known(p) == p.kind = "FieldName"

\* expand_piece(piece)
expand_piece(p) ==
    IF p.kind \in {"Var", "Paragraph", "Ref", "Cite"} THEN p.content
    ELSE IF p.kind = "Parametrized" THEN p.item
    ELSE IF p.kind \in {"HeaderEntry", "HeaderView"} THEN p.name
    ELSE U(unicode_of(p))

\* faulty variant: the resolved value is always shown
ref_choice_target(content, target) == target

\* piece.content or target
ref_choice(content, target) == IF piece_truthy(content) THEN content ELSE target

RECURSIVE collapse(_)
\* re.sub(ur'\s+', u' ', text): fragments are whitespace or hold none
collapse(text) ==
    IF Len(text) = 0 THEN <<>>
    ELSE IF text[1] \in {" ", "\n"}
    THEN LET r == collapse(Tail(text)) IN
         IF Len(r) > 0 /\ r[1] = " " THEN r ELSE <<" ">> \o r
    ELSE <<text[1]>> \o collapse(Tail(text))

RECURSIVE lstrip(_)
lstrip(text) ==
    IF Len(text) > 0 /\ text[1] \in {" ", "\n"} THEN lstrip(Tail(text)) ELSE text

RECURSIVE rstrip(_)
rstrip(text) ==
    IF Len(text) > 0 /\ text[Len(text)] \in {" ", "\n"}
    THEN rstrip(SubSeq(text, 1, Len(text) - 1)) ELSE text

\* text.strip()
strip(text) == rstrip(lstrip(text))

RECURSIVE piece_to_text(_, _)
\* piece_to_text(piece, ctx)
piece_to_text(p, ctx) ==
    IF p.kind = "list"
    THEN IF Len(p.items) = 0 THEN <<>>
         ELSE piece_to_text(p.items[1], ctx) \o piece_to_text(PList(Tail(p.items)), ctx)
    ELSE IF p.kind = "Paragraph"
    THEN piece_to_text(p.content, ctx) \o <<"\n">>
    ELSE IF p.kind = "Ref"
    THEN piece_to_text(ref_choice(p.content, resolve_reference(p, ctx)), ctx)
    ELSE IF p.kind = "Cite"
    THEN IF piece_truthy(p.content)
         THEN <<"\"">> \o strip(collapse(piece_to_text(p.content, ctx)))
                \o <<"\" (", unicode_of(p.info), ")">>
         ELSE <<unicode_of(p.info)>>
    ELSE IF p.kind = "unicode"
    THEN IF p.s = "" THEN <<>> ELSE <<p.s>>
    ELSE piece_to_text(expand_piece(p), ctx)

RECURSIVE reference_targets(_)
\* reference_targets(obj)
reference_targets(obj) ==
    IF obj.kind = "HeaderView"
    THEN [i \in 1..Len(obj.entries) |-> "#" \o id_of(obj.entries[i])]
    ELSE IF obj.kind = "list"
    THEN IF Len(obj.items) = 0 THEN <<>>
         ELSE reference_targets(obj.items[1]) \o reference_targets(PList(Tail(obj.items)))
    ELSE <<"#" \o id_of(obj)>>

\* known_to_html(obj)
known_to_html(p) == << <<"known", unicode_of(p)>> >>

RECURSIVE piece_to_html(_, _)
\* piece_to_html(piece, ctx)
piece_to_html(p, ctx) ==
    IF p.kind = "list"
    THEN IF Len(p.items) = 0 THEN <<>>
         ELSE piece_to_html(p.items[1], ctx) \o piece_to_html(PList(Tail(p.items)), ctx)
    ELSE IF p.kind = "Paragraph"
    THEN << <<"p">> >> \o piece_to_html(p.content, ctx) \o << <<"/">> >>
    ELSE IF p.kind = "Ref"
    THEN LET target == resolve_reference(p, ctx) IN
         << <<"span data-ref-to">> \o reference_targets(target) >>
            \o piece_to_html(ref_choice(p.content, target), ctx) \o << <<"/">> >>
    ELSE IF p.kind = "Cite"
    THEN piece_to_html(p.info, ctx) \o
         (IF piece_truthy(p.content)
          THEN << <<"span", ": ">>, <<"q", p.info.url>> >>
                 \o piece_to_html(p.content, ctx) \o << <<"/">> >>
          ELSE <<>>)
    ELSE IF p.kind = "Citation"
    THEN << <<"cite">>, <<"a", p.title, p.url>>, <<"/">> >>
    ELSE IF is_known(p)
    THEN known_to_html(p)
    ELSE IF p.kind = "unicode"
    THEN << <<"span", p.s>> >>
    ELSE piece_to_html(expand_piece(p), ctx)

---------------------------------------------------------------------------
(* Inputs of the decoder *)

MaxChunks == 2
MaxTrailers == 2

\* chunk payloads: "a" and "ab"
Payloads == { Str(<<(<<97, 1>>)>>), Str(<<(<<97, 1>>), (<<98, 1>>)>>) }

\* header / trailer entries: (name, value)
HeaderEntries == { <<"Transfer-Encoding", "chunked">>, <<"Host", "example.com">> }
TrailerEntries == { <<"Expires", "0">>, <<"X-Sum", "9">> }

SeqsUpTo(S, n) == UNION { [1..k -> S] : k \in 0..n }

\* n chunks, the zero-length chunk, m trailer lines, the final CRLF
ChunkedStream(cs, ts) ==
    [i \in 1..Len(cs) |-> ChunkTok(cs[i])] \o <<LastTok>>
        \o [i \in 1..Len(ts) |-> FieldTok(ts[i])] \o <<CrlfTok>>

\* w itself, w cut short, and w with one token replaced
Damaged(w) ==
    {w} \cup { SubSeq(w, 1, p - 1) : p \in 1..Len(w) }
        \cup { [w EXCEPT ![p] = tok] :
                  p \in 1..Len(w), tok \in {BadTok, BadFieldTok, CrlfTok, LastTok} }

Streams(maxc, maxt) ==
    UNION { Damaged(ChunkedStream(cs, ts)) :
              cs \in SeqsUpTo(Payloads, maxc), ts \in SeqsUpTo(TrailerEntries, maxt) }

\* messages as the callers build them: trailer_entries may be passed to the
\* constructor, and the header layer may have complained already
NewMessages ==
    { [Message("HTTP/1.1", h) EXCEPT !.trailer_entries = t, !.complaints = c,
                                      !.transfer_encoding = TRUE] :
        h \in { <<e>> : e \in HeaderEntries },
        t \in { None, List(<<>>) },
        c \in { <<>>, <<(<<1000, "header">>)>> } }

NoCall == [op |-> "none"]
NoReport == [cls |-> "none"]
NoPiece == [kind |-> "none"]

---------------------------------------------------------------------------
(* The decoder under its callers *)

InitDecode ==
    /\ msg \in NewMessages
    /\ state \in Streams(MaxChunks, MaxTrailers)
    /\ call = NoCall
    /\ ret = "None"
    /\ pc = "new"
    /\ report = NoReport
    /\ items = <<>>
    /\ piece = NoPiece
    /\ result = None

\* the caller peels the outermost chunked coding
ParseChunked ==
    /\ pc = "new"
    /\ LET r == parse_chunked(msg, state) IN
       /\ msg' = r.msg
       /\ state' = r.state
       /\ ret' = r.ret
    /\ call' = [op |-> "parse_chunked", state |-> state, before |-> msg]
    /\ pc' = "parsed"
    /\ UNCHANGED <<report, items, piece, result>>

\* the caller hands over a residual coding: after a successful parse_chunked,
\* or for a message whose codings hold no outermost chunked
DecodeTransferCoding ==
    /\ \/ pc = "new"
       \/ pc = "parsed" /\ ret = "True"
    /\ \E coding \in tc :
         /\ msg' = decode_transfer_coding(msg, coding)
         /\ call' = [op |-> "decode_transfer_coding", coding |-> coding,
                     before |-> msg]
    /\ ret' = "None"
    /\ pc' = "decoded"
    /\ UNCHANGED <<state, report, items, piece, result>>

NextDecode == ParseChunked \/ DecodeTransferCoding

SpecDecode == InitDecode /\ [][NextDecode]_vars

---------------------------------------------------------------------------
(* Claims about the decoder *)

RECURSIVE Leading(_, _)
\* how many tokens of kind t the cursor st starts with
Leading(st, t) ==
    IF Len(st) > 0 /\ st[1].t = t THEN 1 + Leading(Tail(st), t) ELSE 0

Drop(st, k) == SubSeq(st, k + 1, Len(st))

\* st is c1..cn, the zero-length chunk, t1..tm, CRLF (then anything)
WellFormed(st) ==
    LET n == Leading(st, "chunk")
        rest == Drop(st, n + 1)
        m == Leading(rest, "field")
    IN  /\ Len(st) > n /\ st[n + 1].t = "last"
        /\ Len(rest) > m /\ rest[m + 1].t = "crlf"

RECURSIVE ExpandAll(_)
\* the characters of the payloads of the leading chunks, in order
ExpandAll(st) ==
    IF Len(st) > 0 /\ st[1].t = "chunk"
    THEN Expand(st[1].data) \o ExpandAll(Tail(st))
    ELSE <<>>

TrailerLines(st) ==
    LET rest == Drop(st, Leading(st, "chunk") + 1)
    IN  [i \in 1..Leading(rest, "field") |-> rest[i].entry]

\* C1: on a cursor holding n >= 0 chunks, the zero-length chunk, m >= 0
\* trailer lines and the final CRLF, parse_chunked returns True, sets the body
\* to the payloads concatenated in order, sets trailer_entries to the trailer
\* lines in order, and records no finding.
C1_WellFormedDecodes ==
    (call.op = "parse_chunked" /\ WellFormed(call.state)) =>
        /\ ret = "True"
        /\ msg.body.k = "str"
        /\ Expand(msg.body) = ExpandAll(call.state)
        /\ msg.trailer_entries = List(TrailerLines(call.state))
        /\ msg.complaints = call.before.complaints

C1_Witness ==
    /\ call.op = "parse_chunked" /\ WellFormed(call.state)
    /\ Leading(call.state, "chunk") = 2
    /\ call.state[1].data # call.state[2].data
    /\ Len(TrailerLines(call.state)) = 2
    /\ ret = "True"

\* C2: when a parse step fails, parse_chunked returns False, the body is the
\* Unparseable marker, exactly one finding 1005 is added, and trailer_entries
\* keeps the value it had before the call.
C2_FailureIsAllOrNothing ==
    (call.op = "parse_chunked" /\ ~WellFormed(call.state)) =>
        /\ ret = "False"
        /\ msg.body = Unparseable
        /\ msg.complaints = Append(call.before.complaints, <<1005, "error">>)
        /\ msg.trailer_entries = call.before.trailer_entries

\* a failure at the final CRLF, after two chunks and a trailer were parsed
C2_Witness ==
    /\ call.op = "parse_chunked" /\ ~WellFormed(call.state)
    /\ Leading(call.state, "chunk") = 2
    /\ Len(call.state) = 4 /\ call.state[4].t = "field"
    /\ ret = "False"

\* C3: decode_transfer_coding records exactly one 1002 for chunked and sets
\* the body to Unparseable; for another coding that is not identity it
\* records exactly one 1003 carrying the coding and sets the body to
\* Unparseable; for identity it records nothing and leaves the body alone.
C3_ResidualCodings ==
    call.op = "decode_transfer_coding" =>
        /\ call.coding = "chunked" =>
             /\ msg.complaints = Append(call.before.complaints, <<1002, "">>)
             /\ msg.body = Unparseable
        /\ call.coding \notin {"chunked", "identity"} =>
             /\ msg.complaints = Append(call.before.complaints, <<1003, call.coding>>)
             /\ msg.body = Unparseable
        /\ call.coding = "identity" =>
             /\ msg.complaints = call.before.complaints
             /\ msg.body = call.before.body

---------------------------------------------------------------------------
(* Inputs of displayable_body *)

MaxRuns == 2

\* the bytes used: "a", NUL and 0xFF
ByteCodes == {97, 0, 255}
RunLens == {1, limit}

\* the byte strings of exactly n runs
RunSeqs(n) ==
    { r \in [1..n -> ByteCodes \X RunLens] :
        \A i \in 1..(n - 1) : r[i][1] # r[i + 1][1] }

\* a body field holding n runs; with n = 0: None, Unparseable or ''
BodyValues(n) ==
    IF n = 0 THEN {None, Unparseable, Str(<<>>)}
    ELSE { Str(r) : r \in RunSeqs(n) }

\* parsed JSON strings: "a", 4999 times "a" (5001 characters once dumped),
\* and one NUL
JsonValues ==
    { None, Str(<<(<<97, 1>>)>>), Str(<<(<<97, limit - 1>>)>>), Str(<<(<<0, 1>>)>>) }

Charsets == { "", "utf-8", "iso-8859-1", "x-unknown" }

DisplayMessages ==
    { [Message("HTTP/1.1", <<>>) EXCEPT
          !.body = b, !.decoded_body = d, !.json_data = j,
          !.transfer_encoding = te, !.content_encoding = ce, !.charset = cs,
          !.trailer_entries = List(<<>>)] :
        b \in UNION { BodyValues(n) : n \in 0..MaxRuns },
        d \in UNION { BodyValues(n) : n \in 0..MaxRuns },
        j \in JsonValues, te \in BOOLEAN, ce \in BOOLEAN, cs \in Charsets }

RunCount(x) == IF x.k = "str" THEN Len(x.v) ELSE 0

InitBody ==
    /\ msg \in { m \in DisplayMessages :
                   RunCount(m.body) + RunCount(m.decoded_body) <= MaxRuns }
    /\ state = <<>>
    /\ call = NoCall
    /\ ret = "None"
    /\ pc = "new"
    /\ report = NoReport
    /\ items = <<>>
    /\ piece = NoPiece
    /\ result = None

\* body, transforms = displayable_body(msg)
DisplayableBody ==
    /\ pc = "new"
    /\ result' = displayable_body(msg)
    /\ pc' = "displayed"
    /\ UNCHANGED <<msg, state, call, ret, report, items, piece>>

NextBody == DisplayableBody

SpecBody == InitBody /\ [][NextBody]_vars

---------------------------------------------------------------------------
(* Claims about displayable_body *)

RECURSIVE CharAtRuns(_, _)
CharAtRuns(r, i) ==
    IF r[1][2] >= i THEN r[1][1] ELSE CharAtRuns(Tail(r), i - r[1][2])

\* s[i - 1], for 1 <= i <= len(s)
CharAt(s, i) == CharAtRuns(s.v, i)

\* the positions where a run of s starts or ends
Edges(s) ==
    UNION { { RunsLen(SubSeq(s.v, 1, k)), RunsLen(SubSeq(s.v, 1, k)) + 1 } :
              k \in 0..Len(s.v) }

\* positions that decide whether two strings agree on 1..n: both are
\* constant between two edges
Probes(s, t, n) == { i \in Edges(s) \cup Edges(t) \cup {n} : 1 <= i /\ i <= n }

Min(a, b) == IF a < b THEN a ELSE b

Displayed == pc = "displayed" /\ okay(msg.body)

DecodingNotes ==
    { TransferNote, ContentNote, PrettyNote } \cup
        { DecodingNote(c) : c \in Charsets \ {""} }

NoteIndexes(note) ==
    { i \in 1..Len(result.transforms) : result.transforms[i] = note }

\* C7: a working text longer than 5000 characters is cut to its first 5000
\* (up to the later replacement of non-printable characters) and the
\* truncation note follows every decoding note and precedes the sanitization
\* note; a working text of 5000 or fewer characters keeps its length and
\* gets no truncation note.
C7_Truncation ==
    Displayed =>
        LET w == working(msg).r IN
        /\ StrLen(w) > limit =>
             /\ StrLen(result.r) = limit
             /\ \A i \in Probes(w, result.r, limit) :
                    \/ CharAt(result.r, i) = CharAt(w, i)
                    \/ /\ ~is_printable(CharAt(w, i))
                       /\ CharAt(result.r, i) = REPLACEMENT
             /\ \E k \in 1..Len(result.transforms) :
                    /\ NoteIndexes(LimitNote) = {k}
                    /\ \A i \in 1..(k - 1) : result.transforms[i] \in DecodingNotes
                    /\ \A i \in (k + 1)..Len(result.transforms) :
                           result.transforms[i] = PrintableNote
        /\ StrLen(w) <= limit =>
             /\ StrLen(result.r) = StrLen(w)
             /\ NoteIndexes(LimitNote) = {}

\* 5001 characters with a NUL among the first 5000, after a decoding note
C7_Witness ==
    /\ Displayed
    /\ StrLen(working(msg).r) = limit + 1
    /\ result.transforms = <<TransferNote, LimitNote, PrintableNote>>

\* C8 as stated: the returned text holds no non-printable character, and a
\* working text holding one always yields the sanitization note.
C8_AnyNonprintableNoted ==
    (Displayed /\ truthy(msg.body)) =>
        /\ ~has_nonprintable(result.r)
        /\ has_nonprintable(working(msg).r) => NoteIndexes(PrintableNote) # {}

\* C8 amended: the returned text holds no non-printable character; the
\* sanitization note appears exactly when the first 5000 characters of the
\* working text hold one; the stage keeps the length.
C8_Sanitization ==
    Displayed =>
        LET w == working(msg).r
            n == Min(StrLen(w), limit)
        IN  /\ \A i \in 1..Len(result.r.v) : is_printable(result.r.v[i][1])
            /\ StrLen(result.r) = n
            /\ (NoteIndexes(PrintableNote) # {}) <=>
                   (\E i \in Probes(w, w, n) : ~is_printable(CharAt(w, i)))
            /\ \A i \in Probes(w, result.r, n) :
                   CharAt(result.r, i) =
                       IF is_printable(CharAt(w, i)) THEN CharAt(w, i) ELSE REPLACEMENT

\* a NUL among the first 5000 characters was replaced
C8_Witness ==
    /\ Displayed
    /\ has_nonprintable(working(msg).r)
    /\ StrLen(working(msg).r) > limit
    /\ NoteIndexes(PrintableNote) # {}
    /\ \E i \in 1..Len(result.r.v) : result.r.v[i][1] = REPLACEMENT

\* C10 as stated: whenever a content-decoded body is available the note
\* 'removing Content-Encoding' is in the list.
C10_NoteWheneverDecoded ==
    (Displayed /\ truthy(msg.body) /\ okay(msg.decoded_body)
        /\ truthy(msg.decoded_body)) => NoteIndexes(ContentNote) # {}

\* C10 amended: the note appears exactly when a content-decoded body is
\* available and the message has a Content-Encoding header; it then follows
\* 'removing Transfer-Encoding' and precedes every other note; with a
\* content-decoded body and no structured data, the text shown is that of the
\* content-decoded body, not of the raw body.
C10_ContentDecoding ==
    Displayed =>
        /\ (NoteIndexes(ContentNote) # {}) <=>
               (okay(msg.decoded_body) /\ msg.content_encoding)
        /\ \A k \in NoteIndexes(ContentNote) :
               /\ \A i \in 1..(k - 1) : result.transforms[i] = TransferNote
               /\ msg.transfer_encoding => k = 2
               /\ \A i \in (k + 1)..Len(result.transforms) :
                      result.transforms[i] \notin {TransferNote, ContentNote}
        /\ (okay(msg.decoded_body) /\ ~okay(msg.json_data)) =>
               LET d == msg.decoded_body
                   n == Min(StrLen(d), limit)
               IN  /\ StrLen(result.r) = n
                   /\ \A i \in Probes(d, result.r, n) :
                          CharAt(result.r, i) \in {CharAt(d, i), REPLACEMENT}

\* raw body and content-decoded body differ, both headers present
C10_Witness ==
    /\ Displayed
    /\ okay(msg.decoded_body)
    /\ StrLen(msg.decoded_body) # StrLen(msg.body)
    /\ result.transforms = <<TransferNote, ContentNote>>
    /\ StrLen(result.r) = StrLen(msg.decoded_body)

---------------------------------------------------------------------------
(* Decoding a message and rendering the tree that holds it *)

MaxItems == 2

\* the cursors handed to the parser: one chunk and one trailer line, whole,
\* cut short or with one token replaced
ReportStreams ==
    Damaged(ChunkedStream(<<Str(<<(<<97, 1>>)>>)>>, <<(<<"Expires", "0">>)>>))

\* a response decoded earlier: a body, one trailer entry, one finding
DecodedResponse ==
    [Message("HTTP/1.1", <<(<<"Transfer-Encoding", "chunked">>)>>) EXCEPT
        !.body = Str(<<(<<97, 3>>), (<<0, 1>>)>>),
        !.trailer_entries = List(<<(<<"X-Sum", "9">>)>>),
        !.complaints = <<(<<1000, "header">>)>>,
        !.transfer_encoding = TRUE]

\* the tree around the message m: m is the request of the first exchange
TheRequest(m) == RequestView("req1", m)
Response1 == ResponseView("resp1", DecodedResponse)
Response2 == ResponseView("resp2", DecodedResponse)
Exchange1(m) ==
    Exchange("exch1", TheRequest(m), <<Response1, Response2>>, <<(<<1234, "exch">>)>>)
Exchange2 ==
    Exchange("exch2", RequestView("req2", DecodedResponse), <<>>, <<>>)

ItemPool(m) ==
    { TheRequest(m), Response1, Exchange1(m),
      Connection("conn1", <<Exchange1(m), Exchange2>>, <<(<<1007, "conn">>)>>,
                 Str(<<(<<97, 5>>)>>), Str(<<(<<97, 7>>)>>)),
      Connection("conn2", <<Exchange2>>, <<>>, Str(<<>>), Str(<<>>)),
      [kind |-> "str", id |-> "other"] }

InitReport ==
    /\ msg = [Message("HTTP/1.1", <<(<<"Transfer-Encoding", "chunked">>)>>)
                EXCEPT !.transfer_encoding = TRUE]
    /\ state \in ReportStreams
    /\ call = NoCall
    /\ ret = "None"
    /\ pc = "new"
    /\ report = NoReport
    /\ items = <<>>
    /\ piece = NoPiece
    /\ result = None

\* cls.render(items, outfile)
Render ==
    /\ pc \in {"new", "parsed", "decoded"}
    /\ \E cls \in {"TextReport", "HTMLReport"} :
         \E its \in SeqsUpTo(ItemPool(msg), MaxItems) :
            /\ items' = its
            /\ report' = render(cls, its)
    /\ pc' = "rendered"
    /\ UNCHANGED <<msg, state, call, ret, piece, result>>

NextReport == ParseChunked \/ DecodeTransferCoding \/ Render

SpecReport == InitReport /\ [][NextReport]_vars

---------------------------------------------------------------------------
(* Claims about the renderers *)

\* what the renderer has emitted
Output == IF report.cls = "TextReport" THEN report.outfile ELSE report.document

Count(evs, tag, id) ==
    Cardinality({ i \in 1..Len(evs) : evs[i][1] = tag /\ Len(evs[i]) > 1 /\ evs[i][2] = id })

\* the one item is the request that carries msg
RendersTheMessage ==
    /\ pc = "rendered"
    /\ items = <<TheRequest(msg)>>
    /\ msg.body = Unparseable

\* C4: a message built with the Message defaults and left Unparseable by the
\* decoder is rendered without an exception in both formats, with the
\* placeholder in place of a body, its header entries and its decode finding.
C4_UnparseableIsRendered ==
    RendersTheMessage =>
        /\ report.err = ""
        /\ report.closed = 1
        /\ Count(Output, IF report.cls = "TextReport" THEN "body is unparseable"
                         ELSE "Payload body is unavailable.", "req1") = 1
        /\ Count(Output, "bytes of payload body not shown", "req1") = 0
        /\ Count(Output, "payload-body", "req1") = 0
        /\ Count(Output, "header", "req1") = Len(msg.header_entries)
        /\ Count(Output, "notice", "req1") = Len(msg.complaints)
        /\ Len(msg.complaints) > 0

FirstOther(its) ==
    IF \E i \in 1..Len(its) : its[i].kind = "str"
    THEN CHOOSE i \in 1..Len(its) :
            /\ its[i].kind = "str"
            /\ \A j \in 1..(i - 1) : its[j].kind # "str"
    ELSE 0

IsPrefix(a, b) == Len(a) <= Len(b) /\ SubSeq(b, 1, Len(a)) = a

\* C6: render visits the items in order and finalizes once, after the last
\* one; an item of another kind stops it with a TypeError, the items before
\* it rendered in order, none after it, and no finalization.
C6_RenderVisitsInOrder ==
    pc = "rendered" =>
        LET k == FirstOther(items)
            n == IF k = 0 THEN Len(items) ELSE k - 1
            done == render(report.cls, SubSeq(items, 1, n))
        IN  /\ report.rendered = n
            /\ IsPrefix(IF report.cls = "TextReport" THEN done.outfile ELSE done.document,
                        Output)
            /\ k = 0 => (report.err = "" /\ report.closed = 1 /\ Output = done.outfile)
            /\ k > 0 => /\ report.err = "TypeError: don't know how to render"
                        /\ report.closed = 0
                        /\ report = render(report.cls, SubSeq(items, 1, k))

\* the events emitted for one node, found by the ids of the node's parts
ExchangeIds(e) ==
    {e.id, e.request.id} \cup { e.responses[i].id : i \in 1..Len(e.responses) }

\* the place of an event in the order of an exchange: the request, the
\* responses in stored order, the exchange's findings (0: not an element)
ExchangeRank(e, ev) ==
    IF Len(ev) < 2 THEN 0
    ELSE IF ev[2] = e.request.id THEN 1
    ELSE IF \E i \in 1..Len(e.responses) : e.responses[i].id = ev[2]
    THEN 1 + (CHOOSE i \in 1..Len(e.responses) : e.responses[i].id = ev[2])
    ELSE IF ev[2] = e.id /\ ev[1] \in {"notice", "notices"}
    THEN Len(e.responses) + 2
    ELSE 0

\* the place of an event in the order of a connection, the findings at place
\* f, the inbound note at i, the outbound note at o (after the exchanges)
ConnectionRank(c, ev, f, i, o) ==
    LET n == Len(c.exchanges) IN
    IF Len(ev) < 2 THEN 0
    ELSE IF \E j \in 1..n : ev[2] \in ExchangeIds(c.exchanges[j])
    THEN CHOOSE j \in 1..n : ev[2] \in ExchangeIds(c.exchanges[j])
    ELSE IF ev[2] # c.id THEN 0
    ELSE IF ev[1] \in {"notice", "notices"} THEN n + f
    ELSE IF ev[1] = "unparsed inbound" THEN n + i
    ELSE IF ev[1] = "unparsed outbound" THEN n + o
    ELSE 0

\* no element's output comes before that of an earlier element
InOrder(ranks) ==
    \A a, b \in 1..Len(ranks) :
        (a < b /\ ranks[a] # 0 /\ ranks[b] # 0) => ranks[a] <= ranks[b]

ExchangesOf(item) ==
    IF item.kind = "Exchange" THEN {item}
    ELSE IF item.kind = "Connection"
    THEN { item.exchanges[j] : j \in 1..Len(item.exchanges) }
    ELSE {}

ExchangeInOrder(e) ==
    InOrder([a \in 1..Len(Output) |-> ExchangeRank(e, Output[a])])

\* every element of the connection c was emitted
ConnectionComplete(c) ==
    /\ Count(Output, "notice", c.id) = Len(c.complaints)
    /\ Count(Output, "unparsed inbound", c.id) = IF truthy(c.unparsed_inbound) THEN 1 ELSE 0
    /\ Count(Output, "unparsed outbound", c.id) = IF truthy(c.unparsed_outbound) THEN 1 ELSE 0
    /\ \A a \in 1..Len(Output) :
          /\ Output[a][1] = "unparsed inbound" =>
                Output[a][3] = ToString(StrLen(c.unparsed_inbound))
          /\ Output[a][1] = "unparsed outbound" =>
                Output[a][3] = ToString(StrLen(c.unparsed_outbound))
    /\ \A j \in 1..Len(c.exchanges) :
          LET e == c.exchanges[j] IN
          /\ Count(Output, "request-line", e.request.id) = 1
          /\ \A r \in 1..Len(e.responses) :
                Count(Output, "status-line", e.responses[r].id) = 1
          /\ Count(Output, "notice", e.id) = Len(e.complaints)

OneItem == pc = "rendered" /\ Len(items) = 1

\* C5 as stated: both formats emit a connection as its exchanges, then its
\* findings, then the inbound and the outbound note, and an exchange as its
\* request, its responses, then its findings.
C5_SameOrderInBothFormats ==
    OneItem =>
        /\ \A e \in ExchangesOf(items[1]) : ExchangeInOrder(e)
        /\ items[1].kind = "Connection" =>
              InOrder([a \in 1..Len(Output) |->
                         ConnectionRank(items[1], Output[a], 1, 2, 3)])

\* C5 amended: TextReport emits a connection as its exchanges, its findings,
\* the inbound note, the outbound note; HTMLReport emits the exchanges, the
\* inbound note, the outbound note and then the connection's findings; both
\* emit an exchange as its request, its responses, its findings; a rendering
\* that ends without an exception has emitted every element.
C5_TraversalOrder ==
    OneItem =>
        /\ \A e \in ExchangesOf(items[1]) : ExchangeInOrder(e)
        /\ items[1].kind = "Connection" =>
              /\ InOrder([a \in 1..Len(Output) |->
                            IF report.cls = "TextReport"
                            THEN ConnectionRank(items[1], Output[a], 1, 2, 3)
                            ELSE ConnectionRank(items[1], Output[a], 3, 1, 2)])
              /\ report.err = "" => ConnectionComplete(items[1])

\* a connection with findings and both notes, fully rendered as HTML
C5_Witness ==
    /\ OneItem
    /\ items[1].kind = "Connection" /\ items[1].id = "conn1"
    /\ report.cls = "HTMLReport" /\ report.err = "" /\ report.closed = 1
    /\ Count(Output, "notice", "conn1") = 1
    /\ Count(Output, "unparsed inbound", "conn1") = 1

---------------------------------------------------------------------------
(* Rendering a notice's pieces *)

MaxEntries == 2
MaxListLen == 2

\* the entries of the message the context points into
EntryAt(i) == HeaderEntry("entry" \o ToString(i), "Via", "1.1 proxy" \o ToString(i))

\* header views: of an absent header (no entries) up to MaxEntries entries
HeaderViews ==
    { HeaderView("view" \o ToString(n), IF n = 0 THEN "Date" ELSE "Via",
                 [i \in 1..n |-> EntryAt(i)]) : n \in 0..MaxEntries }

\* what a context key can resolve to: a header view, an entry, a list of
\* those (empty lists included), or None
Targets ==
    LET single == HeaderViews \cup { EntryAt(i) : i \in 1..MaxEntries } \cup { PList(<<>>) }
    IN  single \cup { PList(xs) : xs \in SeqsUpTo(single, MaxListLen) } \cup { NonePiece }

\* the inline content of a reference
Contents ==
    { NonePiece, U(""), PList(<<>>), U("here"),
      PList(<<U("the"), U(" "), Var(U("header"))>>) }

RFC == Citation("RFC 7230", "https://tools.ietf.org/html/rfc7230")

Pieces ==
    UNION { { Ref(c, "target"),
              Paragraph(Ref(c, "target")),
              PList(<<U("see"), U(" "), Ref(c, "target"), U(".")>>),
              Cite(PList(<<U(" "), Ref(c, "target"), U("\n"), U(" "), U("end")>>), RFC),
              Cite(NonePiece, RFC),
              Parametrized(Ref(c, "target"), "q=1") } : c \in Contents }

InitPiece ==
    /\ piece \in { [piece |-> p, ctx |-> [target |-> t]] : p \in Pieces, t \in Targets }
    /\ msg = None
    /\ state = <<>>
    /\ call = NoCall
    /\ ret = "None"
    /\ pc = "new"
    /\ report = NoReport
    /\ items = <<>>
    /\ result = None

PieceToText ==
    /\ pc = "new"
    /\ result' = piece_to_text(piece.piece, piece.ctx)
    /\ pc' = "text"
    /\ UNCHANGED <<msg, state, call, ret, report, items, piece>>

PieceToHtml ==
    /\ pc = "new"
    /\ result' = piece_to_html(piece.piece, piece.ctx)
    /\ pc' = "html"
    /\ UNCHANGED <<msg, state, call, ret, report, items, piece>>

NextPiece == PieceToText \/ PieceToHtml

SpecPiece == InitPiece /\ [][NextPiece]_vars

---------------------------------------------------------------------------
(* Claims about references *)

RECURSIVE TargetCount(_)
\* the number of targets a resolved value stands for: the entries of a
\* header view, the targets of the members of a list, else the object itself
TargetCount(t) ==
    IF t.kind = "HeaderView" THEN Len(t.entries)
    ELSE IF t.kind = "list"
    THEN IF Len(t.items) = 0 THEN 0
         ELSE TargetCount(t.items[1]) + TargetCount(PList(Tail(t.items)))
    ELSE 1

RECURSIVE ViewNames(_)
\* the names of the header views in a resolved value, in order
ViewNames(t) ==
    IF t.kind = "HeaderView" THEN <<t.name.s>>
    ELSE IF t.kind = "list" /\ Len(t.items) > 0
    THEN ViewNames(t.items[1]) \o ViewNames(PList(Tail(t.items)))
    ELSE <<>>

\* a rendered reference that resolves to zero targets
ZeroTargetRef ==
    /\ pc \in {"text", "html"}
    /\ piece.piece.kind = "Ref"
    /\ TargetCount(piece.ctx.target) = 0

NoAnchors == << <<"span data-ref-to">> >>
CloseTag == << <<"/">> >>

\* C9 as stated: a reference resolving to zero targets renders exactly its
\* inline content when it has one, and nothing otherwise; in HTML its list
\* of target anchors is empty.
C9_ZeroTargetsRenderNothing ==
    ZeroTargetRef =>
        LET c == piece.piece.content IN
        IF pc = "text"
        THEN result = IF piece_truthy(c) THEN piece_to_text(c, piece.ctx) ELSE <<>>
        ELSE result = NoAnchors
                        \o (IF piece_truthy(c) THEN piece_to_html(c, piece.ctx) ELSE <<>>)
                        \o CloseTag

\* C9 amended: a reference resolving to zero targets renders exactly its
\* inline content when it has one; otherwise it renders the name of every
\* header view without entries in the resolved value, and nothing for an
\* empty list; in HTML its list of target anchors is empty.
C9_ZeroTargets ==
    ZeroTargetRef =>
        LET c == piece.piece.content
            names == ViewNames(piece.ctx.target)
        IN
        IF pc = "text"
        THEN result = IF piece_truthy(c) THEN piece_to_text(c, piece.ctx) ELSE names
        ELSE result = NoAnchors
                        \o (IF piece_truthy(c) THEN piece_to_html(c, piece.ctx)
                            ELSE [i \in 1..Len(names) |-> <<"known", names[i]>>])
                        \o CloseTag

\* inline content shown in HTML for a reference to an absent header
C9_Witness ==
    /\ ZeroTargetRef
    /\ pc = "html"
    /\ piece.ctx.target.kind = "HeaderView"
    /\ piece.piece.content = U("here")
    /\ result = << <<"span data-ref-to">>, <<"span", "here">>, <<"/">> >>

=============================================================================
